---- MODULE Spec2Model ----
(***************************************************************************)
(* GeoBogota: the address autocompletion component and the geocoding       *)
(* client it drives (searchAddress / reverseGeocode over the Nominatim and *)
(* Google adapters).                                                       *)
(*                                                                         *)
(* Scheduling is the browser event loop: a handler, a timer callback or a  *)
(* network response is one macrotask; the continuation of a settled        *)
(* promise is a microtask and runs before the next macrotask.  A call      *)
(* whose promise has settled is in stage "settled" until its continuation  *)
(* (the rest of the async handler that awaited it) has run, and no         *)
(* macrotask is enabled while a settled call exists.                       *)
(*                                                                         *)
(* Coordinates are integers in units of 1/Scale degree.  null and          *)
(* undefined object values are the empty sequence, a present value v is    *)
(* <<v>>; an absent string field of a JSON payload is Undefined.           *)
(***************************************************************************)
EXTENDS Integers, Sequences, FiniteSets, TLC

VARIABLES
    variant,               \* which component source is mounted: "plain" | "map"
    provider,              \* the provider prop: <<>> or <<p>>
    env,                   \* import.meta.env: VITE_GOOGLE_KEY, VITE_NOMINATIM_EMAIL
    query,
    suggestions,
    isLoadingSuggestions,
    selectedResult,        \* <<>> (null) or <<candidate>>
    status,                \* <<>> (null) or <<[type, text]>>
    isSearching,
    markerPosition,        \* <<>> (null) or <<[lat, lng]>>
    searchAbortRef,        \* 0 (null) or the slot of the controller
    reverseAbortRef,
    debounceRef,           \* 0 (undefined) or the id of the timer armed last
    timers,                \* timer id -> <<>> (not armed) or <<value the timer will fetch>>
    mountedRef,
    calls,                 \* slot -> the searchAddress / reverseGeocode call made with that controller
    chosen                 \* history: a suggestion was clicked, and no edit or submission since

vars == <<variant, provider, env, query, suggestions, isLoadingSuggestions,
          selectedResult, status, isSearching, markerPosition, searchAbortRef,
          reverseAbortRef, debounceRef, timers, mountedRef, calls, chosen>>

compState == <<query, suggestions, isLoadingSuggestions, selectedResult, status,
               isSearching, markerPosition>>

-----------------------------------------------------------------------------
(* Bounds of the model *)

\* controller slots: calls that exist at the same time
MaxCalls == 3
\* longest list a provider answers with (Nominatim items, Google predictions)
MaxItems == 2
\* timers that exist at the same time
MaxTimers == 2

-----------------------------------------------------------------------------
(* Values *)

Scale == 10000
Undefined == "<undefined>"
Providers == {"nominatim", "google"}

DEBOUNCE_MS == 350
DEFAULT_LIMIT == 5

NOMINATIM_VIEWBOX == [west |-> -742500, south |-> 44700, east |-> -739900, north |-> 49000]
GOOGLE_BOUNDS == [south |-> 44700, west |-> -742500, north |-> 49000, east |-> -739900]

Abs(n) == IF n < 0 THEN -n ELSE n
Min(a, b) == IF a < b THEN a ELSE b

\* String.prototype.trim on the texts of the model: a text of blanks only
\* trims to the empty string, the other texts carry no outer blanks.
Blanks == {"", " "}
Trim(s) == IF s \in Blanks THEN "" ELSE s

\* the four decimals of a coordinate, zero padded
Pad4(f) ==
    IF f < 10 THEN "000" \o ToString(f)
    ELSE IF f < 100 THEN "00" \o ToString(f)
    ELSE IF f < 1000 THEN "0" \o ToString(f)
    ELSE ToString(f)

Sign(n) == IF n < 0 THEN "-" ELSE ""

\* Number.prototype.toFixed(6)
toFixed6(n) ==
    Sign(n) \o ToString(Abs(n) \div Scale) \o "." \o Pad4(Abs(n) % Scale) \o "00"

formatCoordinate(value) == toFixed6(value)

\* Number -> string as a template literal does it: shortest form, no trailing zeros
Fraction(f) ==
    IF f = 0 THEN ""
    ELSE IF f % 1000 = 0 THEN "." \o ToString(f \div 1000)
    ELSE IF f % 100 = 0 THEN "." \o (IF f < 1000 THEN "0" ELSE "") \o ToString(f \div 100)
    ELSE IF f % 10 = 0
         THEN "." \o (IF f < 100 THEN "00" ELSE IF f < 1000 THEN "0" ELSE "")
                  \o ToString(f \div 10)
    ELSE "." \o Pad4(f)

NumberToString(n) == Sign(n) \o ToString(Abs(n) \div Scale) \o Fraction(Abs(n) % Scale)

\* `${a},${b}` over two numbers
CoordinateId(a, b) == NumberToString(a) \o "," \o NumberToString(b)

\* `${a},${b}` over two payload fields, either of which may be missing
FieldString(v) == IF v = <<>> THEN "undefined" ELSE NumberToString(v[1])
PayloadCoordinateId(a, b) == FieldString(a) \o "," \o FieldString(b)

Truthy(s) == s # Undefined /\ s # ""

RECURSIVE InjSeqs(_, _)
\* the sequences of distinct elements of S, of length at most n
InjSeqs(S, n) ==
    IF n = 0 \/ S = {} THEN {<<>>}
    ELSE {<<>>} \cup UNION {{<<x>> \o t : t \in InjSeqs(S \ {x}, n - 1)} : x \in S}

-----------------------------------------------------------------------------
(* Promises and errors *)

Pending == [state |-> "pending", value |-> <<>>, name |-> "", message |-> ""]
Fulfilled(v) == [state |-> "fulfilled", value |-> v, name |-> "", message |-> ""]
Rejected(n, m) == [state |-> "rejected", value |-> <<>>, name |-> n, message |-> m]

\* new Error(message)
Error(m) == Rejected("Error", m)
\* what fetch rejects with when its signal is aborted
AbortError == Rejected("AbortError", "The user aborted a request.")
\* what fetch rejects with when the network fails
NetworkError == Rejected("TypeError", "Failed to fetch")

MsgNoEmail == "Falta configurar VITE_NOMINATIM_EMAIL para usar Nominatim."
MsgNoKey == "Falta configurar VITE_GOOGLE_KEY para usar Google Maps."
MsgRateLimit == "Se alcanzo el limite de consultas de Nominatim. Intenta mas tarde."
MsgNominatimFail == "No se pudo buscar la direccion con Nominatim."
MsgPlacesFail == "No se pudo obtener sugerencias de Google Places."
MsgGeocodeFail == "No se pudo geocodificar la direccion seleccionada."

googleStatusMessage(st) ==
    CASE st = "ZERO_RESULTS" -> "No se encontraron resultados en Google para esa busqueda."
      [] st = "OVER_QUERY_LIMIT" -> "Se alcanzo el limite de cuota de Google Maps."
      [] st = "REQUEST_DENIED" ->
            "La API de Google Maps rechazo la solicitud. Revisa la clave y restricciones."
      [] st = "INVALID_REQUEST" -> "Solicitud invalida enviada a Google Maps."
      [] st = "UNKNOWN_ERROR" -> "Error desconocido en la API de Google Maps. Intenta de nuevo."
      [] OTHER -> "No se pudo completar la peticion con Google Maps."

-----------------------------------------------------------------------------
(* The providers, as far as the client can see them *)

Inside(lat, lng, box) ==
    /\ box.south <= lat /\ lat <= box.north
    /\ box.west <= lng /\ lng <= box.east

\* What Nominatim knows.  n2 and n3 are two objects at one coordinate pair
\* that carry no place_id; n4 lies outside the view box.
NominatimPlaces ==
    { [key |-> "n1", place_id |-> "101", display_name |-> "Cra 7",
       lat |-> <<46486>>, lon |-> <<-740628>>],
      [key |-> "n2", place_id |-> Undefined, display_name |-> "Calle 72",
       lat |-> <<46580>>, lon |-> <<-740570>>],
      [key |-> "n3", place_id |-> Undefined, display_name |-> "Calle 72",
       lat |-> <<46580>>, lon |-> <<-740570>>],
      [key |-> "n4", place_id |-> "104", display_name |-> "Cra 7",
       lat |-> <<62442>>, lon |-> <<-755812>>] }

\* What Google knows, all of it in Colombia; ChIJ2 lies outside the rectangle.
GooglePlaces ==
    { [place_id |-> "ChIJ1", description |-> "Cra 7", country |-> "CO",
       lat |-> 46486, lng |-> -740628],
      [place_id |-> "ChIJ2", description |-> "Calle 72", country |-> "CO",
       lat |-> 62442, lng |-> -755812],
      [place_id |-> "ChIJ3", description |-> "Calle 72", country |-> "CO",
       lat |-> 46580, lng |-> -740570] }

GoogleStatuses ==
    {"OK", "ZERO_RESULTS", "OVER_QUERY_LIMIT", "REQUEST_DENIED", "INVALID_REQUEST",
     "UNKNOWN_ERROR", "NOT_FOUND", Undefined}

\* what the reverse endpoint of Nominatim answers with: an object any of whose
\* fields may be missing
NominatimReverseObjects ==
    {[key |-> "r", place_id |-> pid, display_name |-> dn, lat |-> ll[1], lon |-> ll[2]] :
        pid \in {"201", Undefined}, dn \in {"Calle 72", Undefined},
        ll \in {<< <<46580>>, <<-740570>> >>, << <<>>, <<>> >>}}

\* the results of a Google reverse geocoding, snapped to the nearest address;
\* an answer lists one or several of them
GoogleReverseResults ==
    {[key |-> "g", place_id |-> pid,
      formatted_address |-> IF pid = Undefined THEN "Calle 72 # 10" ELSE "Calle 72",
      lat |-> 46580, lng |-> -740570] : pid \in {"ChIJ9", Undefined}}

\* The network a client talks to: what the providers know and the failures
\* they answer with.  World is all of it; the component is run against
\* Town, a part of it.
World ==
    [nominatim |-> NominatimPlaces, google |-> GooglePlaces, statuses |-> GoogleStatuses,
     failures |-> {429, 500}, reverse |-> NominatimReverseObjects,
     results |-> GoogleReverseResults]

Town ==
    [nominatim |-> {pl \in NominatimPlaces : pl.key = "n1"},
     google |-> {pl \in GooglePlaces : pl.place_id = "ChIJ1"},
     statuses |-> {"OK", "ZERO_RESULTS"},
     failures |-> {500},
     reverse |-> {o \in NominatimReverseObjects :
                    o.place_id # Undefined /\ o.display_name # Undefined /\ o.lat # <<>>},
     results |-> {r \in GoogleReverseResults : r.place_id # Undefined}]

HttpOk(code) == code = 200

\* a response as fetch delivers it: net = FALSE is a network failure
NetFail == [net |-> FALSE, code |-> 0, status |-> Undefined, body |-> <<>>]
HttpResponses(codes, statuses, bodies) ==
    {[net |-> TRUE, code |-> c, status |-> st, body |-> b] :
        c \in codes, st \in statuses, b \in bodies}

\* the query string searchWithNominatim sends
NominatimSearchParams(q, limit) ==
    [q |-> q, format |-> "jsonv2", limit |-> limit, viewbox |-> NOMINATIM_VIEWBOX,
     bounded |-> 1, dedupe |-> 1]

\* Nominatim honours viewbox, bounded and limit
NominatimSearchResponses(w, params) ==
    LET matches == {it \in w.nominatim :
                      params.bounded = 1 => Inside(it.lat[1], it.lon[1], params.viewbox)}
    IN  {NetFail}
        \cup HttpResponses(w.failures, {Undefined}, {<<>>})
        \cup HttpResponses({200}, {Undefined}, InjSeqs(matches, Min(params.limit, MaxItems)))

\* the query string of the prediction call: encodeQuery drops undefined values
GoogleAutocompleteParams(input, apiKey) ==
    [input |-> input, language |-> "es", types |-> "geocode", key |-> apiKey,
     components |-> "country:CO", locationbias |-> <<GOOGLE_BOUNDS>>,
     locationrestriction |-> <<>>]

Prediction(place) == [place_id |-> place.place_id, description |-> place.description]

\* Places Autocomplete honours components and locationrestriction; locationbias
\* only ranks the predictions
GooglePredictionResponses(w, params) ==
    LET matches == {pl \in w.google :
                      /\ params.components = "country:CO" => pl.country = "CO"
                      /\ params.locationrestriction # <<>> =>
                            Inside(pl.lat, pl.lng, params.locationrestriction[1])}
        lists == InjSeqs({Prediction(pl) : pl \in matches}, MaxItems)
    IN  {NetFail}
        \cup HttpResponses({500}, {Undefined}, {<<>>})
        \cup HttpResponses({200}, {"OK"}, lists)
        \cup HttpResponses({200}, w.statuses \ {"OK"}, {<<>>})

\* Geocoding by place_id answers with the place it names, under its full address
GoogleDetailResponses(w, place_id) ==
    LET results == {<<[key |-> pl.place_id, place_id |-> pl.place_id,
                       formatted_address |-> pl.description \o ", Bogota, Colombia",
                       lat |-> pl.lat, lng |-> pl.lng]>> :
                        pl \in {x \in w.google : x.place_id = place_id}}
    IN  {NetFail}
        \cup HttpResponses({500}, {Undefined}, {<<>>})
        \cup HttpResponses({200}, {"OK"}, results \cup {<<>>})
        \cup HttpResponses({200}, w.statuses \ {"OK"}, {<<>>})

\* the reverse endpoint of Nominatim: JSON null or an object
NominatimReverseResponses(w) ==
    {NetFail}
    \cup HttpResponses(w.failures, {Undefined}, {<<>>})
    \cup HttpResponses({200}, {Undefined}, {<<>>} \cup {<<o>> : o \in w.reverse})

GoogleReverseResponses(w) ==
    {NetFail}
    \cup HttpResponses({500}, {Undefined}, {<<>>})
    \cup HttpResponses({200}, {"OK"},
                       {<<r>> : r \in w.results} \cup {<<>>}
                       \cup {rq \in w.results \X w.results : rq[1] # rq[2]})
    \cup HttpResponses({200}, w.statuses \ {"OK"}, {<<>>})

-----------------------------------------------------------------------------
(* The geocoding client.  A call is the promise searchAddress or            *)
(* reverseGeocode returned, with what the adapter holds while it awaits.    *)

NoCall ==
    [stage |-> "free", op |-> "", provider |-> "", query |-> "", lat |-> 0, lng |-> 0,
     preferred |-> <<>>, limit |-> 0, response |-> <<>>, sliced |-> <<>>,
     details |-> <<>>, parts |-> <<>>, arrived |-> <<>>, http |-> 0, result |-> Pending]

\* the call once fetch has delivered resp to it: the first response of the call,
\* or the response to its k-th detail request
Received(c, resp) == [c EXCEPT !.response = <<resp>>]
ReceivedDetail(c, k, resp) == [c EXCEPT !.details[k] = <<resp>>]

Live == {"fetch", "predict", "details"}

\* detail requests of the call that are still in flight
Outstanding(c) == {k \in 1..Len(c.parts) : c.parts[k].state = "pending"}

\* A Google search that failed on one detail call while others were in flight
\* is "abandoned" once its caller has resumed: Promise.all has rejected, the
\* other elements of geocodePromises go on and their outcomes go nowhere.
\* The slot of a call is idle when nothing of the call is left to happen.
Idle(c) == c.stage = "free" \/ (c.stage = "abandoned" /\ Outstanding(c) = {})

\* the call once the handler that awaited it has resumed
Taken(c) ==
    IF c.result.state = "rejected" /\ c.result.name # "AbortError" /\ Outstanding(c) # {}
    THEN [c EXCEPT !.stage = "abandoned"]
    ELSE NoCall

\* who called: the handlers of the component, or another caller of the exported functions
SearchOps == {"fetchSuggestions", "handleSearch", "searchAddress"}
ReverseOps == {"handleMarkerDragEnd", "reverseGeocode"}

Settle(c, outcome) == [c EXCEPT !.stage = "settled", !.result = outcome]

\* resolveProvider that honours a preference for Google only when a key is configured
resolveProviderNeedsKey(preferred) ==
    IF preferred # <<>> /\ (preferred[1] = "google" => Truthy(env.VITE_GOOGLE_KEY))
    THEN preferred[1]
    ELSE IF Truthy(env.VITE_GOOGLE_KEY) THEN "google" ELSE "nominatim"

resolveProvider(preferred) ==
    IF preferred # <<>> THEN preferred[1]
    ELSE IF Truthy(env.VITE_GOOGLE_KEY) THEN "google" ELSE "nominatim"

\* the email, as a fulfilled value, or the error thrown
getNominatimEmail ==
    IF ~Truthy(env.VITE_NOMINATIM_EMAIL) THEN Error(MsgNoEmail)
    ELSE Fulfilled(env.VITE_NOMINATIM_EMAIL)

\* the key, as a fulfilled value, or the error thrown
getGoogleKey ==
    IF ~Truthy(env.VITE_GOOGLE_KEY) THEN Error(MsgNoKey)
    ELSE Fulfilled(env.VITE_GOOGLE_KEY)

\* Number(x) of a payload field
NaN == 0 - 1000 * Scale
Number(field) == IF field = <<>> THEN NaN ELSE field[1]

\* searchWithNominatim that fetches without looking at the email
searchWithNominatimUnchecked(c) == [c EXCEPT !.stage = "fetch", !.http = @ + 1]

\* searchWithNominatim up to its await of fetch
searchWithNominatim(c) ==
    IF getNominatimEmail.state = "rejected" THEN Settle(c, getNominatimEmail)
    ELSE [c EXCEPT !.stage = "fetch", !.http = @ + 1]

NominatimCandidate(item) ==
    [id |-> IF item.place_id # Undefined THEN item.place_id
            ELSE PayloadCoordinateId(item.lat, item.lon),
     label |-> item.display_name,
     lat |-> Number(item.lat),
     lng |-> Number(item.lon),
     raw |-> item.key,
     provider |-> "nominatim",
     placeId |-> Undefined]

\* searchWithNominatim that answers a non-success response with no candidates,
\* as the reverse lookup does
searchWithNominatimResponseSoft(c, resp) ==
    IF ~resp.net THEN Settle(c, NetworkError)
    ELSE IF ~HttpOk(resp.code) THEN Settle(c, Fulfilled(<<>>))
    ELSE Settle(c, Fulfilled([i \in 1..Len(resp.body) |-> NominatimCandidate(resp.body[i])]))

\* searchWithNominatim from the response on
searchWithNominatimResponse(c, resp) ==
    IF ~resp.net THEN Settle(c, NetworkError)
    ELSE IF ~HttpOk(resp.code)
         THEN IF resp.code = 429 THEN Settle(c, Error(MsgRateLimit))
              ELSE Settle(c, Error(MsgNominatimFail))
    ELSE Settle(c, Fulfilled([i \in 1..Len(resp.body) |-> NominatimCandidate(resp.body[i])]))

\* reverseWithNominatim up to its await of fetch
reverseWithNominatim(c) ==
    IF getNominatimEmail.state = "rejected" THEN Settle(c, getNominatimEmail)
    ELSE [c EXCEPT !.stage = "fetch", !.http = @ + 1]

\* reverseWithNominatim that throws on a non-success response, as the search does
reverseWithNominatimThrows(c, resp) ==
    IF ~resp.net THEN Settle(c, NetworkError)
    ELSE IF ~HttpOk(resp.code) THEN Settle(c, Error(MsgNominatimFail))
    ELSE Settle(c, Fulfilled(<<>>))

\* reverseWithNominatim whose fallback label is the pair as a template literal
\* prints it, and whose coordinates are the payload's alone
reverseWithNominatimResponseRaw(c, resp) ==
    IF ~resp.net THEN Settle(c, NetworkError)
    ELSE IF ~HttpOk(resp.code) THEN Settle(c, Fulfilled(<<>>))
    ELSE IF resp.body = <<>> THEN Settle(c, Fulfilled(<<>>))
    ELSE LET payload == resp.body[1]
         IN  Settle(c, Fulfilled(<<
                [id |-> IF payload.place_id # Undefined THEN payload.place_id
                        ELSE PayloadCoordinateId(payload.lat, payload.lon),
                 label |-> IF payload.display_name # Undefined THEN payload.display_name
                           ELSE NumberToString(c.lat) \o ", " \o NumberToString(c.lng),
                 lat |-> Number(payload.lat),
                 lng |-> Number(payload.lon),
                 raw |-> payload.key,
                 provider |-> "nominatim",
                 placeId |-> Undefined] >>))

\* reverseWithNominatim from the response on
reverseWithNominatimResponse(c, resp) ==
    IF ~resp.net THEN Settle(c, NetworkError)
    ELSE IF ~HttpOk(resp.code) THEN Settle(c, Fulfilled(<<>>))
    ELSE IF resp.body = <<>> THEN Settle(c, Fulfilled(<<>>))
    ELSE LET payload == resp.body[1]
         IN  Settle(c, Fulfilled(<<
                [id |-> IF payload.place_id # Undefined THEN payload.place_id
                        ELSE PayloadCoordinateId(payload.lat, payload.lon),
                 label |-> IF payload.display_name # Undefined THEN payload.display_name
                           ELSE toFixed6(c.lat) \o ", " \o toFixed6(c.lng),
                 lat |-> Number(IF payload.lat # <<>> THEN payload.lat ELSE <<c.lat>>),
                 lng |-> Number(IF payload.lon # <<>> THEN payload.lon ELSE <<c.lng>>),
                 raw |-> payload.key,
                 provider |-> "nominatim",
                 placeId |-> Undefined] >>))

\* searchWithGoogle up to its await of the prediction fetch
searchWithGoogle(c) ==
    IF getGoogleKey.state = "rejected" THEN Settle(c, getGoogleKey)
    ELSE [c EXCEPT !.stage = "predict", !.http = @ + 1]

\* a search that keeps every prediction, whatever the limit
SliceKeepsAll(predictions, limit) == predictions

\* predictions.slice(0, limit)
Slice(predictions, limit) == SubSeq(predictions, 1, Min(limit, Len(predictions)))

\* searchWithGoogle that fails alike on every status other than OK
searchWithGooglePredictionsStrict(c, resp) ==
    IF ~resp.net THEN Settle(c, NetworkError)
    ELSE IF ~HttpOk(resp.code) THEN Settle(c, Error(MsgPlacesFail))
    ELSE IF resp.status # "OK" THEN Settle(c, Error(MsgPlacesFail))
    ELSE IF Len(resp.body) = 0 THEN Settle(c, Fulfilled(<<>>))
    ELSE LET sliced == Slice(resp.body, c.limit)
         IN  IF Len(sliced) = 0 THEN Settle(c, Fulfilled(<<>>))
             ELSE [c EXCEPT !.stage = "details", !.sliced = sliced,
                            !.details = [i \in 1..Len(sliced) |-> <<>>],
                            !.parts = [i \in 1..Len(sliced) |-> Pending],
                            !.http = @ + Len(sliced)]

\* searchWithGoogle from the prediction response to the detail fetches
searchWithGooglePredictions(c, resp) ==
    IF ~resp.net THEN Settle(c, NetworkError)
    ELSE IF ~HttpOk(resp.code) THEN Settle(c, Error(MsgPlacesFail))
    ELSE IF resp.status # "OK" /\ resp.status # "ZERO_RESULTS"
         THEN Settle(c, Error(googleStatusMessage(resp.status)))
    ELSE IF Len(resp.body) = 0 THEN Settle(c, Fulfilled(<<>>))
    ELSE LET sliced == Slice(resp.body, c.limit)
         IN  IF Len(sliced) = 0 THEN Settle(c, Fulfilled(<<>>))
             ELSE [c EXCEPT !.stage = "details", !.sliced = sliced,
                            !.details = [i \in 1..Len(sliced) |-> <<>>],
                            !.parts = [i \in 1..Len(sliced) |-> Pending],
                            !.http = @ + Len(sliced)]

\* an element of geocodePromises that labels the candidate with the address of
\* the detail response
geocodePredictionDetailLabel(prediction, resp) ==
    IF ~resp.net THEN NetworkError
    ELSE IF ~HttpOk(resp.code) THEN Error(MsgGeocodeFail)
    ELSE IF resp.status # "OK" \/ Len(resp.body) = 0
         THEN Error(googleStatusMessage(resp.status))
    ELSE LET result == resp.body[1]
         IN  Fulfilled([id |-> prediction.place_id,
                        label |-> result.formatted_address,
                        lat |-> result.lat,
                        lng |-> result.lng,
                        raw |-> result.key,
                        provider |-> "google",
                        placeId |-> prediction.place_id])

\* one element of geocodePromises, from its response on
geocodePrediction(prediction, resp) ==
    IF ~resp.net THEN NetworkError
    ELSE IF ~HttpOk(resp.code) THEN Error(MsgGeocodeFail)
    ELSE IF resp.status # "OK" \/ Len(resp.body) = 0
         THEN Error(googleStatusMessage(resp.status))
    ELSE LET result == resp.body[1]
         IN  Fulfilled([id |-> prediction.place_id,
                        label |-> prediction.description,
                        lat |-> result.lat,
                        lng |-> result.lng,
                        raw |-> result.key,
                        provider |-> "google",
                        placeId |-> prediction.place_id])

\* the values in the order in which the promises were fulfilled
ValuesByArrival(parts, arrived) == [k \in 1..Len(arrived) |-> parts[arrived[k]].value]

\* Promise.all over promises that are all fulfilled: the values by position
PromiseAllValues(parts, arrived) == [i \in 1..Len(parts) |-> parts[i].value]

\* the values of the fulfilled promises among parts, by position
RECURSIVE FulfilledValues(_)
FulfilledValues(parts) ==
    IF parts = <<>> THEN <<>>
    ELSE (IF Head(parts).state = "fulfilled" THEN <<Head(parts).value>> ELSE <<>>)
         \o FulfilledValues(Tail(parts))

\* Promise.allSettled in the place of Promise.all, keeping what was fulfilled
PromiseAllSettled(c, i, outcome) ==
    LET parts == [c.parts EXCEPT ![i] = outcome]
        d == [c EXCEPT !.parts = parts, !.arrived = Append(c.arrived, i)]
    IN  IF \A k \in 1..Len(parts) : parts[k].state # "pending"
        THEN Settle(d, Fulfilled(FulfilledValues(parts)))
        ELSE d

\* a combinator that waits for every promise and rejects with the failure that
\* arrived last
PromiseAllLastFailure(c, i, outcome) ==
    LET parts == [c.parts EXCEPT ![i] = outcome]
        arrived == Append(c.arrived, i)
        d == [c EXCEPT !.parts = parts, !.arrived = arrived]
        failed == {n \in 1..Len(arrived) : parts[arrived[n]].state = "rejected"}
    IN  IF \E k \in 1..Len(parts) : parts[k].state = "pending" THEN d
        ELSE IF failed = {}
             THEN Settle(d, Fulfilled(PromiseAllValues(parts, arrived)))
        ELSE Settle(d, parts[arrived[CHOOSE n \in failed : \A m \in failed : m <= n]])

\* Promise.all(geocodePromises) when the i-th promise settles with outcome; a
\* promise that settles after Promise.all has rejected changes nothing of it
PromiseAll(c, i, outcome) ==
    LET parts == [c.parts EXCEPT ![i] = outcome]
        arrived == Append(c.arrived, i)
        d == [c EXCEPT !.parts = parts, !.arrived = arrived]
    IN  IF c.stage = "abandoned" THEN d
        ELSE IF outcome.state = "rejected" THEN Settle(d, outcome)
        ELSE IF \A k \in 1..Len(parts) : parts[k].state = "fulfilled"
             THEN Settle(d, Fulfilled(PromiseAllValues(parts, arrived)))
        ELSE d

\* reverseWithGoogle that answers a missing key with no result
reverseWithGoogleSoft(c) ==
    IF getGoogleKey.state = "rejected" THEN Settle(c, Fulfilled(<<>>))
    ELSE [c EXCEPT !.stage = "fetch", !.http = @ + 1]

\* reverseWithGoogle up to its await of fetch
reverseWithGoogle(c) ==
    IF getGoogleKey.state = "rejected" THEN Settle(c, getGoogleKey)
    ELSE [c EXCEPT !.stage = "fetch", !.http = @ + 1]

\* reverseWithGoogle that takes the coordinates of the first result
reverseWithGoogleResponseSnapped(c, resp) ==
    IF ~resp.net THEN Settle(c, NetworkError)
    ELSE IF ~HttpOk(resp.code) THEN Settle(c, Fulfilled(<<>>))
    ELSE IF resp.status # "OK" \/ Len(resp.body) = 0 THEN Settle(c, Fulfilled(<<>>))
    ELSE LET result == resp.body[1]
         IN  Settle(c, Fulfilled(<<
                [id |-> IF result.place_id # Undefined THEN result.place_id
                        ELSE CoordinateId(c.lat, c.lng),
                 label |-> result.formatted_address,
                 lat |-> result.lat,
                 lng |-> result.lng,
                 raw |-> result.key,
                 provider |-> "google",
                 placeId |-> result.place_id] >>))

\* reverseWithGoogle from the response on
reverseWithGoogleResponse(c, resp) ==
    IF ~resp.net THEN Settle(c, NetworkError)
    ELSE IF ~HttpOk(resp.code) THEN Settle(c, Fulfilled(<<>>))
    ELSE IF resp.status # "OK" \/ Len(resp.body) = 0 THEN Settle(c, Fulfilled(<<>>))
    ELSE LET result == resp.body[1]
         IN  Settle(c, Fulfilled(<<
                [id |-> IF result.place_id # Undefined THEN result.place_id
                        ELSE CoordinateId(c.lat, c.lng),
                 label |-> result.formatted_address,
                 lat |-> c.lat,
                 lng |-> c.lng,
                 raw |-> result.key,
                 provider |-> "google",
                 placeId |-> result.place_id] >>))

\* searchAddress without its test of the trimmed query
searchAddressAnyQuery(op, q, preferred, limit) ==
    LET c == [NoCall EXCEPT !.op = op, !.preferred = preferred,
                            !.provider = resolveProvider(preferred),
                            !.query = q, !.limit = limit]
    IN  IF c.provider = "google" THEN searchWithGoogle(c)
        ELSE searchWithNominatim(c)

\* searchAddress up to the first await of the adapter it dispatches to
searchAddress(op, q, preferred, limit) ==
    LET c == [NoCall EXCEPT !.op = op, !.preferred = preferred,
                            !.provider = resolveProvider(preferred),
                            !.query = q, !.limit = limit]
    IN  IF Trim(q) = "" THEN Settle(c, Fulfilled(<<>>))
        ELSE IF c.provider = "google" THEN searchWithGoogle(c)
        ELSE searchWithNominatim(c)

\* reverseGeocode up to the first await of the adapter it dispatches to
reverseGeocode(op, lat, lng, preferred) ==
    LET c == [NoCall EXCEPT !.op = op, !.preferred = preferred,
                            !.provider = resolveProvider(preferred),
                            !.lat = lat, !.lng = lng]
    IN  IF c.provider = "google" THEN reverseWithGoogle(c)
        ELSE reverseWithNominatim(c)

\* controller.abort(): every fetch that holds the signal rejects with AbortError
Abort(c) ==
    IF c.stage \in Live THEN Settle(c, AbortError)
    ELSE IF c.stage = "abandoned"
         THEN [c EXCEPT !.parts = [k \in 1..Len(c.parts) |->
                                     IF k \in Outstanding(c) THEN AbortError ELSE c.parts[k]]]
    ELSE c

-----------------------------------------------------------------------------
(* The GeoBogota component *)

Slots == 1..MaxCalls
InitialAddresses == {"", "Cra 7"}
Inputs == {"", " ", "Cra 7"}
DragPositions == {[lat |-> 46486, lng |-> -740628]}

Info(text) == <<[type |-> "info", text |-> text]>>
Failure(text) == <<[type |-> "error", text |-> text]>>

MsgNoMatches == "No se encontraron coincidencias."
MsgSuggestFail == "Ocurrio un error al obtener sugerencias. Verifica tu conexion."
MsgTypeFirst == "Escribe una direccion antes de buscar."
MsgNoResults == "No se encontraron resultados para esa direccion en Bogota."
MsgSearchFail == "No se pudo completar la busqueda. Revisa tu conexion e intentalo de nuevo."
MsgMarkerMoved == "Direccion actualizada segun la posicion del marcador."
MsgReverseFail == "No se pudo obtener la direccion del punto seleccionado."

\* error.message || fallback
MessageOr(message, fallback) == IF message # "" THEN message ELSE fallback

resolvedProvider ==
    IF provider # <<>> THEN provider[1]
    ELSE IF Truthy(env.VITE_GOOGLE_KEY) THEN "google" ELSE "nominatim"

\* a microtask is queued: the continuation of a settled call runs first
Microtask == \E i \in Slots : calls[i].stage = "settled"

\* new AbortController(): a slot no call and no ref holds
FreeSlots == {i \in Slots : Idle(calls[i]) /\ i # searchAbortRef /\ i # reverseAbortRef}
NewController == CHOOSE i \in FreeSlots : \A j \in FreeSlots : i <= j

\* ref.current?.abort()
AbortRef(cs, ref) == IF ref = 0 THEN cs ELSE [cs EXCEPT ![ref] = Abort(@)]

TimerIds == 1..MaxTimers
\* the timer state, as one
debounce == <<debounceRef, timers>>
Armed(ts) == {id \in TimerIds : ts[id] # <<>>}

\* window.clearTimeout(id): nothing happens if no armed timer has the id
clearTimeout(ts, id) == IF id \in Armed(ts) THEN [ts EXCEPT ![id] = <<>>] ELSE ts
\* the id window.setTimeout returns
NewTimer(ts) == CHOOSE id \in TimerIds \ Armed(ts) : \A j \in TimerIds \ Armed(ts) : id <= j

\* a debounce effect that returns no cleanup
DebounceCleanupMissing(ts, ref) == ts

\* the cleanup function the debounce effect returned on its last run
DebounceCleanup(ts, ref) == clearTimeout(ts, ref)

\* the debounce effect, run after a render in which the query became q: the
\* cleanup of its last run, then its body.  What suggestions, status, the ref
\* and the timers are afterwards.
DebounceEffect(q, sugg, st) ==
    IF q = query
    THEN [suggestions |-> sugg, status |-> st, debounceRef |-> debounceRef, timers |-> timers]
    ELSE LET cleaned == DebounceCleanup(timers, debounceRef)
         IN  IF Trim(q) = ""
             THEN [suggestions |-> <<>>, status |-> <<>>, debounceRef |-> debounceRef,
                   timers |-> cleaned]
             ELSE LET cleared == clearTimeout(cleaned, debounceRef)
                      id == NewTimer(cleared)
                  IN  [suggestions |-> sugg, status |-> st, debounceRef |-> id,
                       timers |-> [cleared EXCEPT ![id] = <<q>>]]

\* the marker effect, run after a render in which selectedResult became sel
MarkerEffect(sel) ==
    IF variant = "map" /\ sel # selectedResult /\ sel # <<>>
    THEN <<[lat |-> sel[1].lat, lng |-> sel[1].lng]>>
    ELSE markerPosition

\* a render that commits query q, suggestions sugg, status st and selectedResult
\* sel, followed by its effects
Commit(q, sugg, st, sel) ==
    LET e == DebounceEffect(q, sugg, st)
    IN  /\ query' = q
        /\ suggestions' = e.suggestions
        /\ status' = e.status
        /\ debounceRef' = e.debounceRef
        /\ timers' = e.timers
        /\ selectedResult' = sel
        /\ markerPosition' = MarkerEffect(sel)

Init ==
    /\ variant \in {"plain", "map"}
    /\ provider \in {<<>>} \cup {<<p>> : p \in Providers}
    /\ env \in [VITE_GOOGLE_KEY : {Undefined, "AIza"},
                 VITE_NOMINATIM_EMAIL : {Undefined, "geo@example.co"}]
    /\ query \in InitialAddresses
    /\ suggestions = <<>>
    /\ isLoadingSuggestions = FALSE
    /\ selectedResult = <<>>
    /\ status = <<>>
    /\ isSearching = FALSE
    /\ markerPosition = <<>>
    /\ searchAbortRef = 0
    /\ reverseAbortRef = 0
    /\ debounceRef = IF Trim(query) = "" THEN 0 ELSE 1
    /\ timers = [id \in TimerIds |-> IF id = debounceRef THEN <<query>> ELSE <<>>]
    /\ mountedRef = TRUE
    /\ calls = [i \in Slots |-> NoCall]
    /\ chosen = FALSE

\* onChange of the input
ChangeQuery(v) ==
    /\ mountedRef /\ ~Microtask
    /\ v # query
    /\ Commit(v, suggestions, status, selectedResult)
    /\ chosen' = FALSE
    /\ UNCHANGED <<variant, provider, env, isLoadingSuggestions, isSearching,
                   searchAbortRef, reverseAbortRef, mountedRef, calls>>

\* fetchSuggestions without its abort of the previous controller
fetchSuggestionsKeepsPrevious == calls

\* searchAbortRef.current?.abort() of fetchSuggestions
fetchSuggestionsAbort == AbortRef(calls, searchAbortRef)

\* fetchSuggestions(value), up to its await
fetchSuggestions(value) ==
    IF Trim(value) = ""
    THEN /\ calls' = fetchSuggestionsAbort
         /\ suggestions' = <<>>
         /\ status' = <<>>
         /\ UNCHANGED <<searchAbortRef, isLoadingSuggestions>>
    ELSE /\ FreeSlots # {}
         /\ searchAbortRef' = NewController
         /\ isLoadingSuggestions' = TRUE
         /\ calls' = [fetchSuggestionsAbort EXCEPT ![NewController] =
                        searchAddress("fetchSuggestions", value, <<resolvedProvider>>,
                                      DEFAULT_LIMIT)]
         /\ UNCHANGED <<suggestions, status>>

\* the timer id expires: the callback of setTimeout runs
DebounceTimer(id) ==
    /\ ~Microtask
    /\ id \in Armed(timers)
    /\ fetchSuggestions(timers[id][1])
    /\ timers' = [timers EXCEPT ![id] = <<>>]
    /\ UNCHANGED <<variant, provider, env, chosen, query, selectedResult, isSearching,
                   markerPosition, reverseAbortRef, debounceRef, mountedRef>>

handleSuggestionClick(result) ==
    /\ mountedRef /\ ~Microtask
    /\ Commit(result.label, <<>>, <<>>, <<result>>)
    /\ chosen' = TRUE
    /\ UNCHANGED <<variant, provider, env, isLoadingSuggestions, isSearching,
                   searchAbortRef, reverseAbortRef, mountedRef, calls>>

\* a suggestion of the list is clicked
SuggestionClick == \E i \in 1..Len(suggestions) : handleSuggestionClick(suggestions[i])

\* handleSearch without its abort of the previous controller
handleSearchKeepsPrevious == calls

\* searchAbortRef.current?.abort() of handleSearch
handleSearchAbort == AbortRef(calls, searchAbortRef)

\* the form is submitted: handleSearch up to its await
handleSearch ==
    /\ mountedRef /\ ~Microtask
    /\ ~isSearching
    /\ IF Trim(query) = ""
       THEN /\ calls' = handleSearchAbort
            /\ status' = Info(MsgTypeFirst)
            /\ UNCHANGED <<searchAbortRef, isSearching>>
       ELSE /\ FreeSlots # {}
            /\ searchAbortRef' = NewController
            /\ isSearching' = TRUE
            /\ calls' = [handleSearchAbort EXCEPT ![NewController] =
                           searchAddress("handleSearch", query, <<resolvedProvider>>,
                                         DEFAULT_LIMIT)]
            /\ UNCHANGED status
    /\ chosen' = FALSE
    /\ UNCHANGED <<variant, provider, env, query, suggestions, isLoadingSuggestions,
                   selectedResult, markerPosition, reverseAbortRef, debounce,
                   mountedRef>>

\* handleMarkerDragEnd aborting through the ref of the forward searches
handleMarkerDragEndAbortsSearch == AbortRef(calls, searchAbortRef)

\* reverseAbortRef.current?.abort() of handleMarkerDragEnd
handleMarkerDragEndAbort == AbortRef(calls, reverseAbortRef)

\* the marker is dropped at position: handleMarkerDragEnd up to its await
handleMarkerDragEnd(position) ==
    /\ mountedRef /\ ~Microtask
    /\ variant = "map"
    /\ markerPosition # <<>>
    /\ FreeSlots # {}
    /\ markerPosition' = <<position>>
    /\ reverseAbortRef' = NewController
    /\ calls' = [handleMarkerDragEndAbort EXCEPT ![NewController] =
                   reverseGeocode("handleMarkerDragEnd", position.lat, position.lng,
                                  <<resolvedProvider>>)]
    /\ UNCHANGED <<variant, provider, env, chosen, query, suggestions, isLoadingSuggestions,
                   selectedResult, status, isSearching, searchAbortRef, debounce,
                   mountedRef>>

MarkerDragEnd == \E position \in DragPositions : handleMarkerDragEnd(position)

\* a cleanup of the mount effect that aborts nothing
UnmountKeepsRequests == calls

\* the aborts of the mount effect's cleanup: searchAbortRef, and in the map
\* variant reverseAbortRef
UnmountAbort ==
    AbortRef(AbortRef(calls, searchAbortRef), IF variant = "map" THEN reverseAbortRef ELSE 0)

\* the cleanup of the mount effect
Unmount ==
    /\ mountedRef /\ ~Microtask
    /\ mountedRef' = FALSE
    /\ timers' = clearTimeout(DebounceCleanup(timers, debounceRef), debounceRef)
    /\ calls' = UnmountAbort
    /\ UNCHANGED <<variant, provider, env, chosen, query, suggestions, isLoadingSuggestions,
                   selectedResult, status, isSearching, markerPosition, searchAbortRef,
                   reverseAbortRef, debounceRef>>

\* fetchSuggestions that arms the timer again when the search has failed
fetchSuggestionsRetries(c) ==
    /\ IF c.result.state = "fulfilled"
       THEN IF ~mountedRef
            THEN UNCHANGED <<suggestions, status, debounce>>
            ELSE /\ suggestions' = c.result.value
                 /\ status' = IF Len(c.result.value) = 0 THEN Info(MsgNoMatches) ELSE <<>>
                 /\ UNCHANGED debounce
       ELSE IF c.result.name = "AbortError"
            THEN UNCHANGED <<suggestions, status, debounce>>
            ELSE /\ status' = Failure(MessageOr(c.result.message, MsgSuggestFail))
                 /\ IF mountedRef
                    THEN LET cleared == clearTimeout(timers, debounceRef)
                         IN  /\ debounceRef' = NewTimer(cleared)
                             /\ timers' = [cleared EXCEPT ![NewTimer(cleared)] = <<c.query>>]
                    ELSE UNCHANGED debounce
                 /\ UNCHANGED suggestions
    /\ isLoadingSuggestions' = IF mountedRef THEN FALSE ELSE isLoadingSuggestions
    /\ UNCHANGED <<query, selectedResult, isSearching, markerPosition>>

\* fetchSuggestions whose catch does not tell AbortError from the other errors
fetchSuggestionsReportsAbort(c) ==
    /\ IF c.result.state = "fulfilled"
       THEN IF ~mountedRef
            THEN UNCHANGED <<suggestions, status>>
            ELSE /\ suggestions' = c.result.value
                 /\ status' = IF Len(c.result.value) = 0 THEN Info(MsgNoMatches) ELSE <<>>
       ELSE /\ status' = Failure(MessageOr(c.result.message, MsgSuggestFail))
            /\ UNCHANGED suggestions
    /\ isLoadingSuggestions' = IF mountedRef THEN FALSE ELSE isLoadingSuggestions
    /\ UNCHANGED <<query, selectedResult, isSearching, markerPosition, debounce>>

\* the rest of fetchSuggestions once its await of searchAddress has settled
fetchSuggestionsContinue(c) ==
    /\ IF c.result.state = "fulfilled"
       THEN IF ~mountedRef
            THEN UNCHANGED <<suggestions, status>>
            ELSE /\ suggestions' = c.result.value
                 /\ status' = IF Len(c.result.value) = 0 THEN Info(MsgNoMatches) ELSE <<>>
       ELSE IF c.result.name = "AbortError"
            THEN UNCHANGED <<suggestions, status>>
            ELSE /\ status' = Failure(MessageOr(c.result.message, MsgSuggestFail))
                 /\ UNCHANGED suggestions
    /\ isLoadingSuggestions' = IF mountedRef THEN FALSE ELSE isLoadingSuggestions
    /\ UNCHANGED <<query, selectedResult, isSearching, markerPosition, debounce>>

\* the rest of handleSearch once its await of searchAddress has settled
handleSearchContinue(c) ==
    /\ IF c.result.state = "fulfilled"
       THEN IF ~mountedRef
            THEN UNCHANGED <<query, suggestions, status, selectedResult, markerPosition,
                             debounce>>
            ELSE IF Len(c.result.value) = 0
                 THEN IF variant = "plain"
                      THEN Commit(query, <<>>, Info(MsgNoResults), <<>>)
                      ELSE Commit(query, suggestions, Info(MsgNoResults), selectedResult)
                 ELSE Commit(c.result.value[1].label, c.result.value, <<>>,
                             <<c.result.value[1]>>)
       ELSE IF c.result.name = "AbortError"
            THEN UNCHANGED <<query, suggestions, status, selectedResult, markerPosition,
                             debounce>>
            ELSE Commit(query, suggestions,
                        Failure(MessageOr(c.result.message, MsgSearchFail)), selectedResult)
    /\ isSearching' = IF mountedRef THEN FALSE ELSE isSearching
    /\ UNCHANGED isLoadingSuggestions

\* the rest of handleMarkerDragEnd once its await of reverseGeocode has settled
handleMarkerDragEndContinue(c) ==
    /\ IF c.result.state = "fulfilled"
       THEN IF c.result.value = <<>> \/ ~mountedRef
            THEN UNCHANGED <<query, suggestions, status, selectedResult, markerPosition,
                             debounce>>
            ELSE Commit(c.result.value[1].label, suggestions, Info(MsgMarkerMoved),
                        c.result.value)
       ELSE IF c.result.name = "AbortError"
            THEN UNCHANGED <<query, suggestions, status, selectedResult, markerPosition,
                             debounce>>
            ELSE Commit(query, suggestions,
                        Failure(MessageOr(c.result.message, MsgReverseFail)), selectedResult)
    /\ UNCHANGED <<isLoadingSuggestions, isSearching>>

\* microtask: the handler that awaited call i resumes
Continue(i) ==
    /\ calls[i].stage = "settled"
    /\ CASE calls[i].op = "fetchSuggestions" -> fetchSuggestionsContinue(calls[i])
         [] calls[i].op = "handleSearch" -> handleSearchContinue(calls[i])
         [] calls[i].op = "handleMarkerDragEnd" -> handleMarkerDragEndContinue(calls[i])
    /\ calls' = [calls EXCEPT ![i] = Taken(@)]
    /\ UNCHANGED <<variant, provider, env, chosen, searchAbortRef, reverseAbortRef, mountedRef>>

\* the response to the one request of a Nominatim search arrives
NominatimSearchResponse(w, i) ==
    /\ ~Microtask
    /\ calls[i].stage = "fetch" /\ calls[i].provider = "nominatim"
    /\ calls[i].op \in SearchOps
    /\ \E resp \in NominatimSearchResponses(w,
                       NominatimSearchParams(calls[i].query, calls[i].limit)) :
          calls' = [calls EXCEPT ![i] = searchWithNominatimResponse(Received(@, resp), resp)]
    /\ UNCHANGED <<variant, provider, env, chosen, compState, searchAbortRef, reverseAbortRef,
                   debounce, mountedRef>>

\* the response to the prediction request of a Google search arrives
GooglePredictionResponse(w, i) ==
    /\ ~Microtask
    /\ calls[i].stage = "predict"
    /\ \E resp \in GooglePredictionResponses(w,
                       GoogleAutocompleteParams(calls[i].query, env.VITE_GOOGLE_KEY)) :
          calls' = [calls EXCEPT ![i] = searchWithGooglePredictions(Received(@, resp), resp)]
    /\ UNCHANGED <<variant, provider, env, chosen, compState, searchAbortRef, reverseAbortRef,
                   debounce, mountedRef>>

\* the response to the k-th detail request of a Google search arrives
GoogleDetailResponse(w, i, k) ==
    /\ ~Microtask
    /\ calls[i].stage \in {"details", "abandoned"}
    /\ k \in Outstanding(calls[i])
    /\ \E resp \in GoogleDetailResponses(w, calls[i].sliced[k].place_id) :
          calls' = [calls EXCEPT ![i] =
                      PromiseAll(ReceivedDetail(@, k, resp), k,
                                 geocodePrediction(calls[i].sliced[k], resp))]
    /\ UNCHANGED <<variant, provider, env, chosen, compState, searchAbortRef, reverseAbortRef,
                   debounce, mountedRef>>

\* the response to the request of a Nominatim reverse lookup arrives
NominatimReverseResponse(w, i) ==
    /\ ~Microtask
    /\ calls[i].stage = "fetch" /\ calls[i].provider = "nominatim"
    /\ calls[i].op \in ReverseOps
    /\ \E resp \in NominatimReverseResponses(w) :
          calls' = [calls EXCEPT ![i] = reverseWithNominatimResponse(Received(@, resp), resp)]
    /\ UNCHANGED <<variant, provider, env, chosen, compState, searchAbortRef, reverseAbortRef,
                   debounce, mountedRef>>

\* the response to the request of a Google reverse lookup arrives
GoogleReverseResponse(w, i) ==
    /\ ~Microtask
    /\ calls[i].stage = "fetch" /\ calls[i].provider = "google"
    /\ calls[i].op \in ReverseOps
    /\ \E resp \in GoogleReverseResponses(w) :
          calls' = [calls EXCEPT ![i] = reverseWithGoogleResponse(Received(@, resp), resp)]
    /\ UNCHANGED <<variant, provider, env, chosen, compState, searchAbortRef, reverseAbortRef,
                   debounce, mountedRef>>

Next ==
    \/ \E v \in Inputs : ChangeQuery(v)
    \/ \E id \in TimerIds : DebounceTimer(id)
    \/ SuggestionClick
    \/ handleSearch
    \/ MarkerDragEnd
    \/ Unmount
    \/ \E i \in Slots : Continue(i)
    \/ \E i \in Slots : NominatimSearchResponse(Town, i)
    \/ \E i \in Slots : GooglePredictionResponse(Town, i)
    \/ \E i \in Slots, k \in 1..MaxItems : GoogleDetailResponse(Town, i, k)
    \/ \E i \in Slots : NominatimReverseResponse(Town, i)
    \/ \E i \in Slots : GoogleReverseResponse(Town, i)

Spec == Init /\ [][Next]_vars

-----------------------------------------------------------------------------
(* Another caller of the exported functions: one call at a time, with any   *)
(* options, against all of World.  The component is not mounted.            *)

\* largest limit option a caller passes, besides leaving it out
MaxLimit == 2
Limits == (0..MaxLimit) \cup {DEFAULT_LIMIT}
Queries == {"", " ", "Cra 7"}
Preferences == {<<>>} \cup {<<p>> : p \in Providers}
Caller == CHOOSE i \in Slots : \A j \in Slots : i <= j

LibInit ==
    /\ variant = "none"
    /\ provider = <<>>
    /\ env \in [VITE_GOOGLE_KEY : {Undefined, "", "AIza"},
                 VITE_NOMINATIM_EMAIL : {Undefined, "", "geo@example.co"}]
    /\ query = ""
    /\ suggestions = <<>>
    /\ isLoadingSuggestions = FALSE
    /\ selectedResult = <<>>
    /\ status = <<>>
    /\ isSearching = FALSE
    /\ markerPosition = <<>>
    /\ searchAbortRef = 0
    /\ reverseAbortRef = 0
    /\ debounceRef = 0
    /\ timers = [id \in TimerIds |-> <<>>]
    /\ mountedRef = FALSE
    /\ calls = [i \in Slots |-> NoCall]
    /\ chosen = FALSE

component == <<variant, provider, env, chosen, compState, searchAbortRef, reverseAbortRef,
               debounce, mountedRef>>

\* searchAddress(q, {provider, signal, limit})
CallSearchAddress(q, preferred, limit) ==
    /\ Idle(calls[Caller])
    /\ calls' = [calls EXCEPT ![Caller] = searchAddress("searchAddress", q, preferred, limit)]
    /\ UNCHANGED component

\* reverseGeocode(lat, lng, {provider, signal})
CallReverseGeocode(position, preferred) ==
    /\ Idle(calls[Caller])
    /\ calls' = [calls EXCEPT ![Caller] =
                   reverseGeocode("reverseGeocode", position.lat, position.lng, preferred)]
    /\ UNCHANGED component

\* the caller aborts the signal it passed
CallerAbort ==
    /\ calls[Caller].stage \in Live \cup {"abandoned"}
    /\ ~Idle(calls[Caller])
    /\ calls' = [calls EXCEPT ![Caller] = Abort(@)]
    /\ UNCHANGED component

\* the caller takes the settled result
CallerContinue ==
    /\ calls[Caller].stage = "settled"
    /\ calls' = [calls EXCEPT ![Caller] = Taken(@)]
    /\ UNCHANGED component

LibNext ==
    \/ \E q \in Queries, preferred \in Preferences, limit \in Limits :
          CallSearchAddress(q, preferred, limit)
    \/ \E position \in DragPositions, preferred \in Preferences :
          CallReverseGeocode(position, preferred)
    \/ CallerAbort
    \/ CallerContinue
    \/ NominatimSearchResponse(World, Caller)
    \/ GooglePredictionResponse(World, Caller)
    \/ \E k \in 1..MaxItems : GoogleDetailResponse(World, Caller, k)
    \/ NominatimReverseResponse(World, Caller)
    \/ GoogleReverseResponse(World, Caller)

LibSpec == LibInit /\ [][LibNext]_vars

-----------------------------------------------------------------------------
(* Cancellation in the component (Spec) *)

ForwardOps == {"fetchSuggestions", "handleSearch"}
ForwardPending == {i \in Slots : calls[i].op \in ForwardOps /\ calls[i].stage \in Live}
ReversePending == {i \in Slots : calls[i].op \in ReverseOps /\ calls[i].stage \in Live}
Cancelled(c) == c.stage = "settled" /\ c.result = AbortError

\* call i is issued in this step
Issued(i) == Idle(calls[i]) /\ calls'[i].stage \in Live \cup {"settled"}
\* call i is aborted in this step
AbortedNow(i) == calls[i].stage \in Live /\ Cancelled(calls'[i])
\* the handler that awaited the cancelled call i resumes in this step
CancelledResumes(i) == Cancelled(calls[i]) /\ calls'[i].stage = "free"

\* C1: at every moment at most one forward search, issued by fetchSuggestions or
\* handleSearch, is pending and not cancelled; the step that issues a forward
\* search leaves no earlier forward search pending.
C1_OneForwardSearch ==
    /\ [](Cardinality(ForwardPending) <= 1)
    /\ [][\A i \in Slots :
            (Issued(i) /\ calls'[i].op \in ForwardOps) =>
                \A j \in Slots \ {i} :
                    ~(calls'[j].op \in ForwardOps /\ calls'[j].stage \in Live)]_vars

\* a forward search is pending after the one before it was cancelled
C1_Witness ==
    \E i, j \in Slots :
        /\ i \in ForwardPending
        /\ calls[j].op \in ForwardOps /\ Cancelled(calls[j])

\* C2: a forward search cancelled before its response arrives sets no error
\* status and writes none of suggestions, selectedResult, query and status:
\* neither the step that issues it nor the step in which its handler resumes
\* after the cancellation changes any of them.
C2_CancelledSearchWritesNothing ==
    [][\A i \in Slots :
          /\ (calls[i].op \in ForwardOps /\ CancelledResumes(i)) =>
                UNCHANGED <<suggestions, selectedResult, query, status>>
          /\ (Issued(i) /\ calls'[i].op \in ForwardOps /\ calls'[i].stage \in Live) =>
                UNCHANGED <<suggestions, selectedResult, query, status>>]_vars

\* the handler of a cancelled forward search is about to resume while there
\* are suggestions and a status it could overwrite
C2_Witness ==
    \E i \in Slots :
        /\ calls[i].op \in ForwardOps /\ Cancelled(calls[i])
        /\ mountedRef
        /\ suggestions # <<>>
        /\ status # <<>>

\* C8: while the component stays mounted, a step that aborts a reverse lookup
\* leaves every forward search and searchAbortRef alone, and a step that aborts
\* a forward search leaves every reverse lookup and reverseAbortRef alone; only
\* the teardown aborts both.
C8_IndependentScopes ==
    [][/\ \A i \in Slots :
            (mountedRef' /\ AbortedNow(i) /\ calls[i].op \in ReverseOps) =>
                /\ searchAbortRef' = searchAbortRef
                /\ \A j \in Slots : calls[j].op \in ForwardOps => calls'[j] = calls[j]
       /\ \A i \in Slots :
            (mountedRef' /\ AbortedNow(i) /\ calls[i].op \in ForwardOps) =>
                /\ reverseAbortRef' = reverseAbortRef
                /\ \A j \in Slots : calls[j].op \in ReverseOps => calls'[j] = calls[j]
       /\ \A i \in Slots :
            (Issued(i) /\ calls'[i].op \in ReverseOps) =>
                \A j \in ForwardPending : calls'[j] = calls[j]
       /\ \A i \in Slots :
            (Issued(i) /\ calls'[i].op \in ForwardOps) =>
                \A j \in ReversePending : calls'[j] = calls[j]
       /\ (\E i \in ForwardPending, j \in ReversePending : AbortedNow(i) /\ AbortedNow(j))
             => ~mountedRef']_vars

\* a reverse lookup has been cancelled by a newer one while a forward search
\* stays pending
C8_Witness ==
    \E i, j, k \in Slots :
        /\ mountedRef
        /\ calls[i].op \in ReverseOps /\ Cancelled(calls[i])
        /\ j \in ReversePending
        /\ k \in ForwardPending

-----------------------------------------------------------------------------
(* The geocoding client (LibSpec) *)

Configured(v) == v # Undefined /\ v # ""
CredentialMissing(p) ==
    IF p = "google" THEN ~Configured(env.VITE_GOOGLE_KEY)
    ELSE ~Configured(env.VITE_NOMINATIM_EMAIL)
ConfigurationError(p) == Error(IF p = "google" THEN MsgNoKey ELSE MsgNoEmail)

SearchCalls == {i \in Slots : calls[i].op \in SearchOps /\ calls[i].stage # "free"}
ReverseCalls == {i \in Slots : calls[i].op \in ReverseOps /\ calls[i].stage # "free"}
Returned(c) == c.stage = "settled" /\ c.result.state = "fulfilled"

\* C3: searchAddress with a non-empty query, dispatched to a provider whose
\* credential is not configured, has failed with the configuration error of that
\* provider as soon as it returns its promise, and has issued no HTTP request.
C3_NoCredentialNoRequest ==
    \A i \in SearchCalls :
        (Trim(calls[i].query) # "" /\ CredentialMissing(calls[i].provider)) =>
            /\ calls[i].stage = "settled"
            /\ calls[i].result = ConfigurationError(calls[i].provider)
            /\ calls[i].http = 0
            /\ calls[i].response = <<>>

\* both providers have refused a search for want of their credential: Nominatim
\* with a key configured, or Google asked for by name
C3_Witness ==
    \E i \in SearchCalls :
        /\ calls[i].result.state = "rejected"
        /\ \/ calls[i].provider = "nominatim" /\ Configured(env.VITE_GOOGLE_KEY)
           \/ calls[i].provider = "google" /\ calls[i].preferred = <<"google">>
        /\ CredentialMissing(calls[i].provider)

\* a detail response that makes its detail call fail
DetailFailed(d) ==
    /\ d # <<>>
    /\ \/ ~d[1].net
       \/ ~HttpOk(d[1].code)
       \/ d[1].status # "OK"
       \/ Len(d[1].body) = 0

GoogleSearches == {i \in SearchCalls : calls[i].provider = "google"}

\* C4: in a Google search with n >= 1 retained predictions, if a detail call has
\* failed the search has failed and exposes no candidate, and a search that
\* returns has one candidate for every retained prediction, none of whose detail
\* calls failed.
C4_AllOrNothing ==
    \A i \in GoogleSearches :
        Len(calls[i].sliced) >= 1 =>
            /\ (\E k \in 1..Len(calls[i].sliced) : DetailFailed(calls[i].details[k])) =>
                    /\ calls[i].stage \in {"settled", "abandoned"}
                    /\ calls[i].result.state = "rejected"
                    /\ calls[i].result.value = <<>>
            /\ Returned(calls[i]) =>
                    /\ Len(calls[i].result.value) = Len(calls[i].sliced)
                    /\ \A k \in 1..Len(calls[i].sliced) :
                          calls[i].details[k] # <<>> /\ ~DetailFailed(calls[i].details[k])

\* of several detail calls one has succeeded and a later one has failed
C4_Witness ==
    \E i \in GoogleSearches :
        /\ Len(calls[i].sliced) >= 2
        /\ \E k, l \in 1..Len(calls[i].sliced) :
              /\ calls[i].parts[k].state = "fulfilled"
              /\ DetailFailed(calls[i].details[l])
              /\ calls[i].result.state = "rejected"

\* C5: the candidates of a search that returns are in the provider's order: the
\* k-th candidate of Nominatim is made of the k-th item of the payload, the k-th
\* candidate of Google of the k-th retained prediction, which is the k-th
\* prediction of the response, whatever the order in which the detail responses
\* arrived.
C5_ProviderOrder ==
    \A i \in SearchCalls :
        (Returned(calls[i]) /\ calls[i].response # <<>>) =>
            LET body == calls[i].response[1].body
                value == calls[i].result.value
            IN  IF calls[i].provider = "nominatim"
                THEN /\ Len(value) = Len(body)
                     /\ \A k \in 1..Len(value) : value[k].raw = body[k].key
                ELSE /\ Len(value) = Len(calls[i].sliced)
                     /\ \A k \in 1..Len(value) :
                          /\ calls[i].sliced[k] = body[k]
                          /\ value[k].placeId = body[k].place_id
                          /\ value[k].raw = body[k].place_id
                          /\ value[k].label = body[k].description

\* a Google search has returned whose second detail response arrived first
C5_Witness ==
    \E i \in GoogleSearches :
        /\ Returned(calls[i])
        /\ Len(calls[i].result.value) >= 2
        /\ calls[i].arrived[1] = 2

\* C6: the provider of a call is the preference whenever one is given, whether
\* or not a key is configured; without a preference it is Google when
\* VITE_GOOGLE_KEY is configured and Nominatim otherwise; a provider is always
\* resolved.
C6_ResolveProvider ==
    \A i \in SearchCalls \cup ReverseCalls :
        /\ calls[i].provider \in Providers
        /\ calls[i].preferred # <<>> => calls[i].provider = calls[i].preferred[1]
        /\ (calls[i].preferred = <<>> /\ Configured(env.VITE_GOOGLE_KEY)) =>
              calls[i].provider = "google"
        /\ (calls[i].preferred = <<>> /\ ~Configured(env.VITE_GOOGLE_KEY)) =>
              calls[i].provider = "nominatim"

\* Google was asked for by name while no key is configured
C6_Witness ==
    \E i \in SearchCalls \cup ReverseCalls :
        /\ calls[i].preferred = <<"google">>
        /\ ~Configured(env.VITE_GOOGLE_KEY)
        /\ calls[i].provider = "google"

\* the provider answered a reverse lookup without an address
NoAddress(c) ==
    /\ c.response # <<>>
    /\ c.response[1].net
    /\ \/ ~HttpOk(c.response[1].code)
       \/ Len(c.response[1].body) = 0
       \/ c.provider = "google" /\ c.response[1].status # "OK"

\* C7: for both providers, a reverse lookup answered with a non-success HTTP
\* response, a null payload, a status other than OK or an empty result set
\* returns null and throws nothing.
C7_ReverseSoftFailure ==
    \A i \in ReverseCalls :
        NoAddress(calls[i]) => calls[i].stage = "settled" /\ calls[i].result = Fulfilled(<<>>)

\* Nominatim has answered a reverse lookup with a non-success HTTP response
C7_Witness ==
    \E i \in ReverseCalls :
        /\ calls[i].provider = "nominatim"
        /\ NoAddress(calls[i])
        /\ ~HttpOk(calls[i].response[1].code)

\* C9: every candidate a forward search returns, for either provider, has its
\* latitude in [4.47, 4.90] and its longitude in [-74.25, -73.99], the provider
\* honouring the parameters the client sends.
C9_InsideBogota ==
    \A i \in SearchCalls :
        Returned(calls[i]) =>
            \A k \in 1..Len(calls[i].result.value) :
                Inside(calls[i].result.value[k].lat, calls[i].result.value[k].lng,
                       GOOGLE_BOUNDS)

\* C10: in every batch searchAddress returns and in every candidate
\* reverseGeocode returns, the id is a non-empty string and no two candidates of
\* one batch share their id.
C10_IdsUnique ==
    \A i \in SearchCalls \cup ReverseCalls :
        Returned(calls[i]) =>
            LET value == calls[i].result.value
            IN  /\ \A k \in 1..Len(value) : value[k].id # "" /\ value[k].id # Undefined
                /\ \A k, l \in 1..Len(value) : value[k].id = value[l].id => k = l

\* the prediction response of a Google search that lets it go on to its predictions
PredictionsReceived(c) ==
    /\ c.response # <<>>
    /\ c.response[1].net
    /\ HttpOk(c.response[1].code)
    /\ c.response[1].status \in {"OK", "ZERO_RESULTS"}

\* C11: once searchWithGoogle has the prediction list P of a response, with any
\* limit >= 0, it has retained the first min(limit, |P|) predictions in order
\* and issued a detail request for each of them and for no other, and a search
\* that returns has at most limit candidates.
C11_TruncatedBeforeDetails ==
    \A i \in GoogleSearches :
        PredictionsReceived(calls[i]) =>
            LET P == calls[i].response[1].body
                n == IF calls[i].limit < Len(P) THEN calls[i].limit ELSE Len(P)
            IN  /\ Len(calls[i].sliced) = n
                /\ \A k \in 1..n : calls[i].sliced[k] = P[k]
                /\ Len(calls[i].details) = n
                /\ calls[i].http = 1 + n
                /\ Returned(calls[i]) => Len(calls[i].result.value) <= calls[i].limit

\* a search limited to one candidate has returned it out of two predictions
C11_Witness ==
    \E i \in GoogleSearches :
        /\ PredictionsReceived(calls[i])
        /\ calls[i].limit = 1
        /\ Len(calls[i].response[1].body) = 2
        /\ Returned(calls[i])
        /\ Len(calls[i].result.value) = 1

\* the detail calls of c that have failed
FailedDetails(c) == {k \in 1..Len(c.details) : DetailFailed(c.details[k])}

\* the detail call of c that failed first in time
FirstFailure(c) ==
    LET n == CHOOSE n \in 1..Len(c.arrived) :
                /\ c.arrived[n] \in FailedDetails(c)
                /\ \A m \in 1..(n - 1) : c.arrived[m] \notin FailedDetails(c)
    IN  c.arrived[n]

\* C12: when detail calls of a Google search fail, the search has failed with
\* the error of the detail call that failed first in time and exposes no
\* result; a detail call that fails or succeeds after that changes neither the
\* error nor anything else the caller sees, and the search does not settle a
\* second time.
C12_FirstFailurePropagates ==
    /\ [](\A i \in GoogleSearches :
            FailedDetails(calls[i]) # {} =>
                LET k == FirstFailure(calls[i])
                IN  /\ calls[i].stage \in {"settled", "abandoned"}
                    /\ calls[i].result =
                          geocodePrediction(calls[i].sliced[k], calls[i].details[k][1])
                    /\ calls[i].result.state = "rejected"
                    /\ calls[i].result.value = <<>>)
    /\ [][\A i \in Slots :
            (calls[i].stage = "abandoned" /\ ~Idle(calls[i])) =>
                /\ calls'[i].stage = "abandoned"
                /\ calls'[i].result = calls[i].result
                /\ UNCHANGED <<compState, searchAbortRef, reverseAbortRef, debounce>>]_vars

\* two detail calls of one search have failed, each with its own error
C12_Witness ==
    \E i \in GoogleSearches :
        /\ calls[i].stage = "abandoned"
        /\ \E k, l \in FailedDetails(calls[i]) :
              /\ calls[i].parts[k] # calls[i].parts[l]
              /\ calls[i].result = calls[i].parts[FirstFailure(calls[i])]
              /\ calls[i].result # calls[i].parts[l]

\* the statuses the table of googleStatusMessage names as errors
TableStatuses == {"OVER_QUERY_LIMIT", "REQUEST_DENIED", "INVALID_REQUEST", "UNKNOWN_ERROR"}
\* what the table answers for a status it does not name
FallbackMessage == googleStatusMessage("NO_SUCH_STATUS")

\* the prediction phase of a Google search got an HTTP success with status st
PredictionStatus(c, st) ==
    /\ c.response # <<>>
    /\ c.response[1].net
    /\ HttpOk(c.response[1].code)
    /\ c.response[1].status = st

\* C13: in the prediction phase, status ZERO_RESULTS makes the search return the
\* empty sequence without error; every other status that is not OK makes it
\* fail with the message of the status table: each of OVER_QUERY_LIMIT,
\* REQUEST_DENIED, INVALID_REQUEST and UNKNOWN_ERROR has a message of its own,
\* and a status the table does not name has the fallback message.
C13_PredictionStatusTable ==
    \A i \in GoogleSearches :
        \A st \in GoogleStatuses \ {"OK"} :
            PredictionStatus(calls[i], st) =>
                /\ calls[i].stage = "settled"
                /\ calls[i].http = 1
                /\ st = "ZERO_RESULTS" => calls[i].result = Fulfilled(<<>>)
                /\ st # "ZERO_RESULTS" =>
                      /\ calls[i].result = Error(googleStatusMessage(st))
                      /\ st \in TableStatuses =>
                            /\ calls[i].result.message # FallbackMessage
                            /\ \A other \in TableStatuses \ {st} :
                                  calls[i].result.message # googleStatusMessage(other)
                      /\ st \notin TableStatuses => calls[i].result.message = FallbackMessage

\* a search has failed on a status of the table
C13_Witness ==
    \E i \in GoogleSearches :
        /\ PredictionStatus(calls[i], "REQUEST_DENIED")
        /\ calls[i].result.state = "rejected"

NominatimSearches == {i \in SearchCalls : calls[i].provider = "nominatim"}

\* the response a call got was an HTTP response
Answered(c) == c.response # <<>> /\ c.response[1].net

\* C14: a Nominatim search answered with HTTP 429 has failed with the rate-limit
\* error, one answered with any other non-success status has failed with the
\* generic Nominatim error, the two errors being different, and one answered
\* with a success and no item has returned the empty sequence.
C14_NominatimErrors ==
    \A i \in NominatimSearches :
        Answered(calls[i]) =>
            LET resp == calls[i].response[1]
            IN  /\ calls[i].stage = "settled"
                /\ resp.code = 429 => calls[i].result = Error(MsgRateLimit)
                /\ (~HttpOk(resp.code) /\ resp.code # 429) =>
                      calls[i].result = Error(MsgNominatimFail)
                /\ MsgRateLimit # MsgNominatimFail
                /\ (HttpOk(resp.code) /\ Len(resp.body) = 0) =>
                      calls[i].result = Fulfilled(<<>>)

\* a Nominatim search has been refused with HTTP 429
C14_Witness ==
    \E i \in NominatimSearches :
        /\ Answered(calls[i])
        /\ calls[i].response[1].code = 429
        /\ calls[i].result.state = "rejected"

\* C15: reverseGeocode dispatched to a provider whose credential is not
\* configured has failed with the configuration error of that provider as soon
\* as it returns its promise, having issued no HTTP request; it has not returned
\* null.
C15_ReverseNeedsCredential ==
    \A i \in ReverseCalls :
        CredentialMissing(calls[i].provider) =>
            /\ calls[i].stage = "settled"
            /\ calls[i].result = ConfigurationError(calls[i].provider)
            /\ calls[i].result # Fulfilled(<<>>)
            /\ calls[i].http = 0
            /\ calls[i].response = <<>>

\* a reverse lookup was refused by Google, asked for by name, for want of a key
C15_Witness ==
    \E i \in ReverseCalls :
        /\ calls[i].provider = "google"
        /\ calls[i].preferred = <<"google">>
        /\ CredentialMissing("google")
        /\ calls[i].result.state = "rejected"

NominatimReverses == {i \in ReverseCalls : calls[i].provider = "nominatim"}

\* the object a reverse lookup of Nominatim got with an HTTP success
ReversePayload(c) ==
    IF Answered(c) /\ HttpOk(c.response[1].code) THEN c.response[1].body ELSE <<>>

\* C16: a reverse lookup of Nominatim that got an object has returned one
\* candidate; if the object has no display_name the label is the input pair with
\* six decimals, "4.648600, -74.062800" for (4.6486, -74.0628); if the object
\* has no lat (lon) the latitude (longitude) of the candidate is the input's.
C16_ReverseFallbacks ==
    \A i \in NominatimReverses :
        ReversePayload(calls[i]) # <<>> =>
            LET payload == ReversePayload(calls[i])[1]
            IN  /\ Returned(calls[i])
                /\ Len(calls[i].result.value) = 1
                /\ payload.display_name = Undefined =>
                      /\ calls[i].result.value[1].label =
                            toFixed6(calls[i].lat) \o ", " \o toFixed6(calls[i].lng)
                      /\ (calls[i].lat = 46486 /\ calls[i].lng = -740628) =>
                            calls[i].result.value[1].label = "4.648600, -74.062800"
                /\ payload.lat = <<>> => calls[i].result.value[1].lat = calls[i].lat
                /\ payload.lon = <<>> => calls[i].result.value[1].lng = calls[i].lng

\* Nominatim has answered the lookup of (4.6486, -74.0628) with an object that
\* has neither display_name nor coordinates
C16_Witness ==
    \E i \in NominatimReverses :
        /\ ReversePayload(calls[i]) # <<>>
        /\ ReversePayload(calls[i])[1].display_name = Undefined
        /\ ReversePayload(calls[i])[1].lat = <<>>
        /\ calls[i].lat = 46486 /\ calls[i].lng = -740628
        /\ Returned(calls[i])

GoogleReverses == {i \in ReverseCalls : calls[i].provider = "google"}

\* the results a reverse lookup of Google got with an HTTP success and status OK
ReverseResults(c) ==
    IF Answered(c) /\ HttpOk(c.response[1].code) /\ c.response[1].status = "OK"
    THEN c.response[1].body ELSE <<>>

\* C17: a reverse lookup of Google that got results has returned one candidate
\* whose latitude and longitude are the input's, whatever the coordinates of the
\* results, and whose label is the formatted address of the first result.
C17_GoogleReverseEchoesInput ==
    \A i \in GoogleReverses :
        ReverseResults(calls[i]) # <<>> =>
            /\ Returned(calls[i])
            /\ Len(calls[i].result.value) = 1
            /\ calls[i].result.value[1].lat = calls[i].lat
            /\ calls[i].result.value[1].lng = calls[i].lng
            /\ calls[i].result.value[1].label = ReverseResults(calls[i])[1].formatted_address

\* Google has answered with two results of different addresses, at coordinates
\* that are not the input's
C17_Witness ==
    \E i \in GoogleReverses :
        /\ Len(ReverseResults(calls[i])) = 2
        /\ ReverseResults(calls[i])[1].formatted_address
              # ReverseResults(calls[i])[2].formatted_address
        /\ ReverseResults(calls[i])[1].lat # calls[i].lat
        /\ ReverseResults(calls[i])[1].lng # calls[i].lng
        /\ Returned(calls[i])

-----------------------------------------------------------------------------
(* Requests of the component (Spec) *)

\* the calls that are there: issued and not yet over
Calls == {i \in Slots : calls[i].stage # "free"}
Failed(c) == c.stage \in {"settled", "abandoned"} /\ c.result.state = "rejected"

\* C18: nothing is tried twice.  A Nominatim search and a reverse lookup have
\* issued one HTTP request once they await or have an answer, and never more; a
\* Google search has issued one prediction request and, after it, one detail
\* request for each retained prediction, at most limit of them; a call that has
\* settled issues no request any more; and the step in which a handler resumes
\* with a failure issues no call and arms no timer.
C18_NoRetry ==
    /\ [](\A i \in Calls :
            /\ (calls[i].provider = "nominatim" \/ calls[i].op \in ReverseOps) =>
                  /\ calls[i].http <= 1
                  /\ (calls[i].stage = "fetch" \/ calls[i].response # <<>>) =>
                        calls[i].http = 1
            /\ (calls[i].provider = "google" /\ calls[i].op \in SearchOps) =>
                  /\ calls[i].http <= 1 + Len(calls[i].sliced)
                  /\ (calls[i].stage = "predict" \/ calls[i].response # <<>>) =>
                        calls[i].http = 1 + Len(calls[i].sliced)
                  /\ Len(calls[i].sliced) <= calls[i].limit
            /\ (Failed(calls[i]) /\ calls[i].response = <<>>
                   /\ calls[i].result.name # "AbortError") => calls[i].http = 0)
    /\ [][\A i \in Slots :
            /\ (~Idle(calls[i]) /\ calls'[i].stage \in {"settled", "abandoned"}) =>
                  calls'[i].http = calls[i].http
            /\ Failed(calls[i]) =>
                  /\ \A j \in Slots : ~Issued(j)
                  /\ UNCHANGED debounce]_vars

\* a search of the component has failed after its requests went out, and its
\* handler is about to resume
C18_Witness ==
    \E i \in Calls :
        /\ mountedRef
        /\ calls[i].op = "fetchSuggestions"
        /\ calls[i].stage = "settled"
        /\ Failed(calls[i])
        /\ calls[i].result.name # "AbortError"
        /\ calls[i].http >= 1

\* C19: at most one debounce timer is armed at any time, the one debounceRef
\* names, and it will fetch the query as it is now; every change of the query
\* cancels the timer that was armed; a suggestion request is issued only by the
\* expiry of the armed timer, for the query it was armed with, which is the
\* query as it is now.
C19_Debounced ==
    /\ [](/\ Cardinality(Armed(timers)) <= 1
          /\ \A id \in Armed(timers) : id = debounceRef /\ timers[id] = <<query>>)
    /\ [][/\ query' # query => \A id \in Armed(timers) : timers'[id] # timers[id]
          /\ \A i \in Slots :
                (Issued(i) /\ calls'[i].op = "fetchSuggestions") =>
                    /\ \E id \in Armed(timers) :
                          /\ timers'[id] = <<>>
                          /\ calls'[i].query = timers[id][1]
                    /\ calls'[i].query = query
                    /\ query' = query]_vars

\* the query was changed while a suggestion request was pending, and the timer
\* armed by the change has not expired yet
C19_Witness ==
    \E i \in Slots, id \in TimerIds :
        /\ calls[i].op = "fetchSuggestions" /\ calls[i].stage \in Live
        /\ id \in Armed(timers)
        /\ timers[id] = <<query>>

-----------------------------------------------------------------------------
(* The candidates (LibSpec) *)

\* the candidates a call has returned: the batch of a search, the one candidate
\* of a reverse lookup or none
Candidates(c) == IF Returned(c) THEN c.result.value ELSE <<>>

\* C20: every candidate carries the tag of the adapter the call was dispatched
\* to; the k-th candidate of a Google search has the place_id of the k-th
\* prediction as its placeId and the description of that prediction as its
\* label; a candidate of Nominatim, from a search or a reverse lookup, has no
\* placeId.
C20_CandidateFields ==
    \A i \in SearchCalls \cup ReverseCalls :
        \A k \in 1..Len(Candidates(calls[i])) :
            LET candidate == Candidates(calls[i])[k]
            IN  /\ candidate.provider = calls[i].provider
                /\ (i \in GoogleSearches) =>
                      /\ candidate.placeId = calls[i].response[1].body[k].place_id
                      /\ candidate.placeId # Undefined
                      /\ candidate.label = calls[i].response[1].body[k].description
                /\ calls[i].provider = "nominatim" => candidate.placeId = Undefined

\* a Google search has returned a candidate whose detail response names
\* another address than the prediction
C20_Witness ==
    \E i \in GoogleSearches :
        /\ Len(Candidates(calls[i])) >= 1
        /\ calls[i].details[1][1].body[1].formatted_address # Candidates(calls[i])[1].label

-----------------------------------------------------------------------------
(* What the component shows (Spec) *)

\* the suggestion requests that are pending and not cancelled
SuggestionsPending ==
    {i \in Slots : calls[i].op = "fetchSuggestions" /\ calls[i].stage \in Live}

\* C21: in every reachable state of the component, while a suggestion request
\* issued by fetchSuggestions is pending and not cancelled, isLoadingSuggestions
\* is true; the handler of a superseded request does not clear the flag of the
\* request that superseded it.
C21_LoadingWhilePending == SuggestionsPending # {} => isLoadingSuggestions

-----------------------------------------------------------------------------
(* A submission that nobody disturbs: from the submission of the form to    *)
(* the end of handleSearch the user makes no input and the component stays  *)
(* mounted.  Timers, responses and continuations go on as they do.          *)

SubmitNext ==
    \/ ~isSearching /\ \E v \in Inputs : ChangeQuery(v)
    \/ ~isSearching /\ SuggestionClick
    \/ ~isSearching /\ MarkerDragEnd
    \/ ~isSearching /\ Unmount
    \/ handleSearch
    \/ \E id \in TimerIds : DebounceTimer(id)
    \/ \E i \in Slots : Continue(i)
    \/ \E i \in Slots : NominatimSearchResponse(Town, i)
    \/ \E i \in Slots : GooglePredictionResponse(Town, i)
    \/ \E i \in Slots, k \in 1..MaxItems : GoogleDetailResponse(Town, i, k)
    \/ \E i \in Slots : NominatimReverseResponse(Town, i)
    \/ \E i \in Slots : GoogleReverseResponse(Town, i)

SubmitSpec == Init /\ [][SubmitNext]_vars

\* C22: a search submitted with a non-empty query, with no further input and
\* the component mounted, is never cancelled, and when handleSearch resumes it
\* sets the selected result, the no-results status or an error status; a
\* debounce timer that was armed when the form was submitted does not end it
\* silently.
C22_SubmissionEnds ==
    /\ [](\A i \in Slots : calls[i].op = "handleSearch" => ~Cancelled(calls[i]))
    /\ [][\A i \in Slots :
            (calls[i].op = "handleSearch" /\ calls[i].stage = "settled"
                /\ calls'[i].stage # "settled") =>
                \/ /\ calls[i].result.state = "fulfilled"
                   /\ Len(calls[i].result.value) > 0
                   /\ selectedResult' = <<calls[i].result.value[1]>>
                \/ status' = Info(MsgNoResults)
                \/ status' # <<>> /\ status'[1].type = "error"]_vars

-----------------------------------------------------------------------------
(* The suggestion list (Spec) *)

\* no request is in flight or awaiting its handler, and no timer is armed
Quiet == (\A i \in Slots : Idle(calls[i])) /\ Armed(timers) = {}

\* C23: in every reachable state of the component, when the query is empty or
\* whitespace and no request or timer remains pending, suggestions is empty: a
\* forward search that was pending when the query was cleared does not fill
\* suggestions afterwards.
C23_BlankQueryNoSuggestions == (Trim(query) = "" /\ Quiet) => suggestions = <<>>

\* C24: after handleSuggestionClick and until the user next edits the input or
\* submits the form, suggestions stays empty and no forward-search request is
\* issued.
C24_ChoiceStands ==
    /\ [](chosen => suggestions = <<>>)
    /\ [][(chosen /\ chosen') =>
            \A i \in Slots : ~(Issued(i) /\ calls'[i].op \in ForwardOps)]_vars

-----------------------------------------------------------------------------
(* After unmount (Spec) *)

-----------------------------------------------------------------------------
(* Whose response is shown (Spec) *)

\* the handler of forward search i resumes in this step with the places the
\* provider answered, and the component is mounted: it writes them to
\* suggestions (fetchSuggestions) or to suggestions and selectedResult
\* (handleSearch)
WritesResponse(i) ==
    /\ calls[i].op \in ForwardOps
    /\ calls[i].stage = "settled" /\ calls'[i].stage # "settled"
    /\ calls[i].result.state = "fulfilled"
    /\ mountedRef

\* C26: whenever a handler writes a provider's response to suggestions or
\* selectedResult, the response is that of the forward search issued last, the
\* one whose controller searchAbortRef holds; the response to a superseded
\* request is never written.
C26_LatestResponseOnly ==
    [][\A i \in Slots : WritesResponse(i) => searchAbortRef = i]_vars

\* the response to the request that superseded another is about to be written:
\* the handler of the superseded request has already run its finally block
C26_Witness ==
    /\ mountedRef
    /\ ~isLoadingSuggestions
    /\ \E i \in Slots :
          /\ calls[i].op = "fetchSuggestions" /\ calls[i].stage = "settled"
          /\ calls[i].result.state = "fulfilled" /\ Len(calls[i].result.value) > 0
          /\ searchAbortRef = i

-----------------------------------------------------------------------------
(* The blank query (LibSpec) *)

\* C27: a searchAddress call whose query is empty or whitespace returns the
\* empty sequence without any network request and without an error, whichever
\* provider is preferred or resolved and whether or not the Google credential
\* is configured.
C27_BlankQueryReturnsEmpty ==
    \A i \in Slots :
        (calls[i].op = "searchAddress" /\ Trim(calls[i].query) = "") =>
            /\ calls[i].stage = "settled"
            /\ calls[i].result = Fulfilled(<<>>)
            /\ calls[i].http = 0
            /\ calls[i].response = <<>>

\* a whitespace query sent to Google with no credential configured has returned
C27_Witness ==
    /\ ~Truthy(env.VITE_GOOGLE_KEY)
    /\ \E i \in Slots :
          /\ calls[i].op = "searchAddress" /\ calls[i].query = " "
          /\ calls[i].provider = "google"
          /\ calls[i].result = Fulfilled(<<>>)

====
